---------------------------- MODULE Spec2Model ----------------------------
(***************************************************************************)
(* A model of src/app.py (Hyd Life: PG Finder): the currency parser, the   *)
(* smart-tag scanner, the coordinate lookup, load_data's cleaning and      *)
(* enrichment pipeline, and one render of the script: load, sidebar        *)
(* controls, filter logic, dashboard.                                      *)
(*                                                                         *)
(* Text is a sequence of one-character strings, so that replace, strip,    *)
(* split, lower, title and the substring test are computed character by    *)
(* character as Python computes them.  A number is a reduced fraction      *)
(* <<n, d>>; d = 0 is a non-finite float: <<0, 0>> is NaN, <<1, 0>> and     *)
(* <<-1, 0>> are the infinities.  A cell of the table as read is tagged:    *)
(* a text (a Python str) or a number; a missing cell is the number NaN.    *)
(***************************************************************************)
EXTENDS Integers, Sequences, FiniteSets, TLC

VARIABLES
    pc,           \* position of the script, or of the function under call
    arg,          \* argument of the pure function under call
    ret,          \* its return value
    source,       \* what the spreadsheet export yields at the fetch
    df,           \* the table load_data returned, or None
    error,        \* whether st.error has been shown
    sel_loc,      \* the selected location
    sel_gender,   \* the selected gender
    budget,       \* the slider's value
    filtered_df,  \* the filtered view
    steps         \* the dashboard steps that have run

vars == <<pc, arg, ret, source, df, error, sel_loc, sel_gender, budget,
          filtered_df, steps>>

----------------------------------------------------------------------------
(* Numbers *)

Abs(i) == IF i < 0 THEN -i ELSE i

RECURSIVE GCD(_, _)
GCD(a, b) == IF b = 0 THEN a ELSE GCD(b, a % b)

\* The reduced fraction n/d, d > 0.
Rat(n, d) ==
    LET g == GCD(Abs(n), d)
    IN  <<n \div g, d \div g>>

NaN    == <<0, 0>>
PosInf == <<1, 0>>
NegInf == <<-1, 0>>

IsNaN(a)    == a = NaN
IsFinite(a) == a[2] # 0

RatAdd(a, b) ==
    IF IsNaN(a) \/ IsNaN(b) THEN NaN
    ELSE IF ~IsFinite(a) /\ ~IsFinite(b) THEN (IF a = b THEN a ELSE NaN)
    ELSE IF ~IsFinite(a) THEN a
    ELSE IF ~IsFinite(b) THEN b
    ELSE Rat(a[1] * b[2] + b[1] * a[2], a[2] * b[2])

\* a / k and a * k for an integer k > 0.
RatDivInt(a, k) == IF IsFinite(a) THEN Rat(a[1], a[2] * k) ELSE a
RatMulInt(a, k) == IF IsFinite(a) THEN Rat(a[1] * k, a[2]) ELSE a

RatSquare(a) == IF IsFinite(a) THEN <<a[1] * a[1], a[2] * a[2]>>
                ELSE IF IsNaN(a) THEN NaN ELSE PosInf

\* a / b for a finite or NaN and b finite and positive or NaN.
RatDiv(a, b) ==
    IF IsNaN(a) \/ IsNaN(b) THEN NaN
    ELSE Rat(a[1] * b[2], a[2] * b[1])

\* a > k and a < k for an integer k; every comparison with NaN is false.
RatGtInt(a, k) ==
    IF IsFinite(a) THEN a[1] > k * a[2] ELSE a = PosInf
RatLtInt(a, k) ==
    IF IsFinite(a) THEN a[1] < k * a[2] ELSE a = NegInf
RatLeInt(a, k) ==
    IF IsFinite(a) THEN a[1] <= k * a[2] ELSE a = NegInf

\* a < b for finite a and b.
RatLt(a, b) == a[1] * b[2] < b[1] * a[2]

\* int(a) for a finite a >= 0: truncation.
int(a) == a[1] \div a[2]

----------------------------------------------------------------------------
(* Text *)

\* A cell: a str, or a float.
Str(s) == [str |-> TRUE, v |-> s]
Num(a) == [str |-> FALSE, v |-> a]

\* pandas' isna of a cell
isna(c) == ~c.str /\ IsNaN(c.v)

UpperCase == <<"A", "B", "C", "D", "E", "F", "G", "H", "I", "J", "K", "L", "M",
               "N", "O", "P", "Q", "R", "S", "T", "U", "V", "W", "X", "Y", "Z">>
LowerCase == <<"a", "b", "c", "d", "e", "f", "g", "h", "i", "j", "k", "l", "m",
               "n", "o", "p", "q", "r", "s", "t", "u", "v", "w", "x", "y", "z">>

\* The lower-case letter of each upper-case one, and the converse.
LowerOf == [c \in {UpperCase[i] : i \in 1..26} |->
               LowerCase[CHOOSE i \in 1..26 : UpperCase[i] = c]]
UpperOf == [c \in {LowerCase[i] : i \in 1..26} |->
               UpperCase[CHOOSE i \in 1..26 : LowerCase[i] = c]]

IsUpper(c) == c \in DOMAIN LowerOf
IsLower(c) == c \in DOMAIN UpperOf
IsCased(c) == IsUpper(c) \/ IsLower(c)

ToLower(c) == IF IsUpper(c) THEN LowerOf[c] ELSE c
ToUpper(c) == IF IsLower(c) THEN UpperOf[c] ELSE c

Digits == <<"0", "1", "2", "3", "4", "5", "6", "7", "8", "9">>
IsDigit(c) == c \in {Digits[i] : i \in 1..10}
DigitValue(c) == (CHOOSE i \in 1..10 : Digits[i] = c) - 1

\* The whitespace the inputs are drawn from: the space and the tab.
Whitespace == {" ", "\t"}

\* str.lower()
lower(s) == [i \in 1..Len(s) |-> ToLower(s[i])]

\* str.title(): a cased character is upper-cased after an uncased one (or at
\* the start) and lower-cased after a cased one.
title(s) ==
    [i \in 1..Len(s) |->
        IF i > 1 /\ IsCased(s[i - 1]) THEN ToLower(s[i]) ELSE ToUpper(s[i])]

\* str.replace(c, '')
remove(s, c) == SelectSeq(s, LAMBDA x : x # c)

\* str.strip()
strip(s) ==
    IF \A i \in 1..Len(s) : s[i] \in Whitespace THEN <<>>
    ELSE LET lo == CHOOSE i \in 1..Len(s) :
                       s[i] \notin Whitespace /\ \A j \in 1..(i - 1) : s[j] \in Whitespace
             hi == CHOOSE i \in 1..Len(s) :
                       s[i] \notin Whitespace /\ \A j \in (i + 1)..Len(s) : s[j] \in Whitespace
         IN  SubSeq(s, lo, hi)

\* c in s, for a character c
HasChar(s, c) == \E i \in 1..Len(s) : s[i] = c

\* k in s, for a text k: the substring test
Contains(s, k) ==
    \E i \in 0..(Len(s) - Len(k)) : SubSeq(s, i + 1, i + Len(k)) = k

\* str.split(c): the parts between the occurrences of the character c.
RECURSIVE split(_, _)
split(s, c) ==
    IF ~HasChar(s, c) THEN <<s>>
    ELSE LET i == CHOOSE k \in 1..Len(s) :
                      s[k] = c /\ \A j \in 1..(k - 1) : s[j] # c
         IN  <<SubSeq(s, 1, i - 1)>> \o split(SubSeq(s, i + 1, Len(s)), c)

----------------------------------------------------------------------------
(* float(s) *)

ValueError == <<"ValueError">>

RECURSIVE DigitsValue(_)
DigitsValue(s) ==
    IF s = <<>> THEN 0
    ELSE 10 * DigitsValue(SubSeq(s, 1, Len(s) - 1)) + DigitValue(s[Len(s)])

RECURSIVE Pow10(_)
Pow10(k) == IF k = 0 THEN 1 ELSE 10 * Pow10(k - 1)

\* An unsigned decimal literal: digits with at most one point and at least
\* one digit ("12", "1.5", "1.", ".5"; not ".").
IsDecimal(s) ==
    /\ \A i \in 1..Len(s) : IsDigit(s[i]) \/ s[i] = "."
    /\ \E i \in 1..Len(s) : IsDigit(s[i])
    /\ \A i, j \in 1..Len(s) : (s[i] = "." /\ s[j] = ".") => i = j

DecimalValue(s) ==
    LET t == remove(s, ".")
        p == IF HasChar(s, ".")
             THEN CHOOSE i \in 1..Len(s) : s[i] = "."
             ELSE Len(s) + 1
    IN  Rat(DigitsValue(t), Pow10(Len(s) + 1 - p - (IF p <= Len(s) THEN 1 ELSE 0)))

InfNames == { <<"i", "n", "f">>, <<"i", "n", "f", "i", "n", "i", "t", "y">> }
NanName  == <<"n", "a", "n">>

\* Python's float() of a text: surrounding whitespace is ignored, then an
\* optional sign, then a decimal literal, inf, infinity or nan.  Exponents
\* and digit-group underscores are outside the inputs of this model.
float(s) ==
    LET t    == strip(s)
        neg  == t # <<>> /\ t[1] = "-"
        sgn  == t # <<>> /\ t[1] \in {"-", "+"}
        body == IF sgn THEN SubSeq(t, 2, Len(t)) ELSE t
    IN  IF IsDecimal(body)
        THEN (IF neg THEN <<-DecimalValue(body)[1], DecimalValue(body)[2]>>
                     ELSE DecimalValue(body))
        ELSE IF Len(body) <= 8 /\ lower(body) \in InfNames THEN (IF neg THEN NegInf ELSE PosInf)
        ELSE IF Len(body) = 3 /\ lower(body) = NanName THEN NaN
        ELSE ValueError

Raises(v) == v = ValueError

----------------------------------------------------------------------------
(* clean_currency *)

Rupee == "₹"

\* The try blocks of clean_currency, for a str x.
clean_str(x) == strip(remove(remove(x, Rupee), ","))

\* clean_currency with the sum of the two ends returned, not their midpoint.
clean_currency_sum(x) ==
    LET s == clean_str(x)
    IN  IF HasChar(s, "-")
        THEN LET parts == split(s, "-")
                 a == float(parts[1])
                 b == float(parts[2])
             IN  IF Raises(a) \/ Raises(b) THEN <<0, 1>>
                 ELSE RatAdd(a, b)
        ELSE LET v == float(s)
             IN  IF Raises(v) THEN <<0, 1>> ELSE v

clean_currency_str(x) ==
    LET s == clean_str(x)
    IN  IF HasChar(s, "-")
        THEN LET parts == split(s, "-")
                 a == float(parts[1])
                 b == float(parts[2])
             IN  IF Raises(a) \/ Raises(b) THEN <<0, 1>>
                 ELSE RatDivInt(RatAdd(a, b), 2)
        ELSE LET v == float(s)
             IN  IF Raises(v) THEN <<0, 1>> ELSE v

\* clean_currency(x) for a cell x: isinstance(x, str) decides; a number (the
\* NaN of a missing cell too) is returned as it is.
clean_currency(x) == IF x.str THEN clean_currency_str(x.v) ELSE x.v

----------------------------------------------------------------------------
(* generate_smart_tags *)

\* The keyword lists of the seven checks, in the order of the code.  A label
\* is written without the emoji that precedes it in the source.
GoodFoodWords == {
    <<"g", "o", "o", "d", " ", "f", "o", "o", "d">>,
    <<"t", "a", "s", "t", "y">>,
    <<"d", "e", "l", "i", "c", "i", "o", "u", "s">> }
MetroNearWords == {
    <<"m", "e", "t", "r", "o">>,
    <<"t", "r", "a", "n", "s", "p", "o", "r", "t">>,
    <<"n", "e", "a", "r">> }
CleanWords == {
    <<"c", "l", "e", "a", "n">>,
    <<"n", "e", "a", "t">>,
    <<"m", "a", "i", "n", "t", "a", "i", "n", "e", "d">> }
FastWiFiWords == {
    <<"f", "a", "s", "t">>,
    <<"w", "i", "f", "i">>,
    <<"i", "n", "t", "e", "r", "n", "e", "t">> }
BadFoodWords == {
    <<"b", "a", "d", " ", "f", "o", "o", "d">>,
    <<"w", "o", "r", "s", "t", " ", "f", "o", "o", "d">>,
    <<"r", "e", "p", "e", "t", "i", "t", "i", "v", "e">> }
HygieneIssueWords == {
    <<"c", "o", "c", "k", "r", "o", "a", "c", "h">>,
    <<"b", "u", "g", "s">>,
    <<"d", "i", "r", "t", "y">> }
NoParkingWords == {
    <<"n", "o", " ", "p", "a", "r", "k", "i", "n", "g">>,
    <<"c", "o", "n", "g", "e", "s", "t", "e", "d">> }

\* any(x in text for x in words)
any_in(text, words) == \E x \in words : Contains(text, x)

\* tags.append(label) when the check holds
append_if(tags, cond, label) == IF cond THEN Append(tags, label) ELSE tags

\* generate_smart_tags scanning the text as written, not lower-cased.
generate_smart_tags_cased(comment_text) ==
    LET text == comment_text
        t1 == append_if(<<>>, any_in(text, GoodFoodWords), "Good Food")
        t2 == append_if(t1, any_in(text, MetroNearWords), "Metro Near")
        t3 == append_if(t2, any_in(text, CleanWords), "Clean")
        t4 == append_if(t3, any_in(text, FastWiFiWords), "Fast WiFi")
        t5 == append_if(t4, any_in(text, BadFoodWords), "Bad Food")
        t6 == append_if(t5, any_in(text, HygieneIssueWords), "Hygiene Issue")
        t7 == append_if(t6, any_in(text, NoParkingWords), "No Parking")
    IN  IF t7 # <<>> THEN t7 ELSE <<"Reviewed">>

generate_smart_tags(comment_text) ==
    LET text == lower(comment_text)
        t1 == append_if(<<>>, any_in(text, GoodFoodWords), "Good Food")
        t2 == append_if(t1, any_in(text, MetroNearWords), "Metro Near")
        t3 == append_if(t2, any_in(text, CleanWords), "Clean")
        t4 == append_if(t3, any_in(text, FastWiFiWords), "Fast WiFi")
        t5 == append_if(t4, any_in(text, BadFoodWords), "Bad Food")
        t6 == append_if(t5, any_in(text, HygieneIssueWords), "Hygiene Issue")
        t7 == append_if(t6, any_in(text, NoParkingWords), "No Parking")
    IN  IF t7 # <<>> THEN t7 ELSE <<"Reviewed">>

----------------------------------------------------------------------------
(* LOCATION_COORDINATES *)

\* A coordinate pair is in units of 0.0001 degree.
LOCATION_COORDINATES == {
    <<<<"G", "a", "c", "h", "i", "b", "o", "w", "l", "i">>, <<174401, 783489>>>>,
    <<<<"M", "a", "d", "h", "a", "p", "u", "r">>, <<174483, 783915>>>>,
    <<<<"K", "o", "n", "d", "a", "p", "u", "r">>, <<174622, 783568>>>>,
    <<<<"H", "i", "t", "e", "c", " ", "C", "i", "t", "y">>, <<174435, 783772>>>>,
    <<<<"J", "u", "b", "i", "l", "e", "e", " ", "H", "i", "l", "l", "s">>, <<174325, 784070>>>>,
    <<<<"B", "a", "n", "j", "a", "r", "a", " ", "H", "i", "l", "l", "s">>, <<174123, 784389>>>>,
    <<<<"K", "u", "k", "a", "t", "p", "a", "l", "l", "y">>, <<174948, 783996>>>>,
    <<<<"M", "a", "n", "i", "k", "o", "n", "d", "a">>, <<174018, 783846>>>>,
    <<<<"N", "a", "n", "a", "k", "r", "a", "m", "g", "u", "d", "a">>, <<174125, 783396>>>>,
    <<<<"H", "a", "f", "e", "e", "z", "p", "e", "t">>, <<174856, 783526>>>>,
    <<<<"A", "m", "e", "e", "r", "p", "e", "t">>, <<174375, 784483>>>>,
    <<<<"U", "n", "k", "n", "o", "w", "n">>, <<173850, 784867>>>> }

Unknown == <<"U", "n", "k", "n", "o", "w", "n">>

\* k in d
has_key(d, k) == \E e \in d : e[1] = k

\* d[k], for a key k of d
item(d, k) == (CHOOSE e \in d : e[1] = k)[2]

\* d.get(k, default)
get(d, k, default) == IF has_key(d, k) THEN item(d, k) ELSE default

\* The lookup without the step through the first token.
coords_full_only(x) ==
    get(LOCATION_COORDINATES, x, item(LOCATION_COORDINATES, Unknown))

\* The lambda of the coordinates step, applied to one Location.
coords(x) ==
    get(LOCATION_COORDINATES, x,
        get(LOCATION_COORDINATES, split(x, " ")[1],
            item(LOCATION_COORDINATES, Unknown)))


----------------------------------------------------------------------------
(* load_data *)

\* What a variable of the script holds: a table, None, or nothing yet.
DataFrame(t) == [rows |-> t]
None  == [none |-> TRUE]
Unset == [unset |-> TRUE]

\* A numeral of a CSV field, as read_csv's type inference takes it: the
\* blanks around it are skipped.
IsNumeral(t) == t # <<>> /\ ~Raises(float(t))

\* read_csv gives a column a numeric dtype when the file has rows and each
\* field of the column is empty or a numeral; otherwise the dtype is object
\* and the non-empty fields are str.
NumericColumn(rows, col) ==
    /\ rows # <<>>
    /\ \A i \in 1..Len(rows) : rows[i][col] = <<>> \/ IsNumeral(rows[i][col])

Columns == {"Cost", "Rating", "Location", "Gender", "Sharing", "Comments", "Phone"}

ReadCell(field, numeric) ==
    IF field = <<>> THEN Num(NaN)
    ELSE IF numeric THEN Num(float(field))
    ELSE Str(field)

\* pd.read_csv(url) and the renaming of the columns: one record per row, with
\* the row's index.
read_csv(rows) ==
    LET numeric == [c \in Columns |-> NumericColumn(rows, c)]
    IN  [i \in 1..Len(rows) |->
            [index    |-> i - 1,
             Cost     |-> ReadCell(rows[i].Cost, numeric["Cost"]),
             Rating   |-> ReadCell(rows[i].Rating, numeric["Rating"]),
             Location |-> ReadCell(rows[i].Location, numeric["Location"]),
             Gender   |-> ReadCell(rows[i].Gender, numeric["Gender"]),
             Sharing  |-> ReadCell(rows[i].Sharing, numeric["Sharing"]),
             Comments |-> ReadCell(rows[i].Comments, numeric["Comments"]),
             Phone    |-> ReadCell(rows[i].Phone, numeric["Phone"])]]

\* The bounds of the realistic range.
CostFloor   == 2000
CostCeiling == 60000

\* The range filter with the two bounds let in.
InRange_inclusive(cost) ==
    ~RatLtInt(cost, CostFloor) /\ ~RatGtInt(cost, CostCeiling) /\ ~IsNaN(cost)

\* (df['Cost'] > 2000) & (df['Cost'] < 60000), for one Cost
InRange(cost) == RatGtInt(cost, CostFloor) /\ RatLtInt(cost, CostCeiling)

\* pd.to_numeric(x, errors='coerce') of one cell, then fillna(0)
to_numeric(c) ==
    LET v == IF c.str
             THEN (IF Raises(float(c.v)) THEN NaN ELSE float(c.v))
             ELSE c.v
    IN  IF IsNaN(v) THEN <<0, 1>> ELSE v

\* fillna(value) of one cell
fillna(c, value) == IF isna(c) THEN Str(value) ELSE c

\* The .str accessor refuses a series of a numeric dtype: the column was read
\* as numeric and fillna replaced no cell of it.
StrAccessorRaises(rows, col, t) ==
    /\ NumericColumn(rows, col)
    /\ \A i \in 1..Len(t) : ~isna(t[i][col])

\* The Location left in the letter case it was written in.
str_title_skipped(c) == c

\* A .str method on one cell: the method on a str, NaN on anything else.
str_strip(c) == IF c.str THEN Str(strip(c.v)) ELSE Num(NaN)
str_title(c) == IF c.str THEN Str(title(c.v)) ELSE Num(NaN)

AnyGender == <<"A", "n", "y">>

ScoreScale == 5000

\* The score with the factor of the comment above it in the source, 10000.
ValueScore_10000(rating, cost) ==
    RatMulInt(RatDiv(RatSquare(rating), cost), 2 * ScoreScale)

\* ((Rating ** 2) / Cost) * 5000
ValueScore(rating, cost) ==
    RatMulInt(RatDiv(RatSquare(rating), cost), ScoreScale)

\* The cleaning of the Cost column and the range filter (lines 91-92).
CleanCost(t) ==
    SelectSeq([i \in 1..Len(t) |-> [t[i] EXCEPT !.Cost = clean_currency(@)]],
              LAMBDA r : InRange(r.Cost))

\* The cleaning of the other columns (lines 93-96), where no .str raises.
CleanRest(t) ==
    [i \in 1..Len(t) |->
        [t[i] EXCEPT !.Rating   = to_numeric(@),
                     !.Location = str_title(str_strip(fillna(@, Unknown))),
                     !.Gender   = str_strip(fillna(@, AnyGender)),
                     !.Comments = fillna(@, <<>>)]]

\* The enrichment (lines 100-112): Tags, lat, lon, Value Score.
Enrich(r) ==
    LET xy == coords(r.Location.v)
    IN
    [index    |-> r.index,
     Cost     |-> r.Cost,
     Rating   |-> r.Rating,
     Location |-> r.Location,
     Gender   |-> r.Gender,
     Sharing  |-> r.Sharing,
     Comments |-> r.Comments,
     Phone    |-> r.Phone,
     Tags     |-> generate_smart_tags(r.Comments.v),
     lat      |-> xy[1],
     lon      |-> xy[2],
     ValueScore |-> ValueScore(r.Rating, r.Cost)]

\* Whether the try block of load_data raises: the fetch fails, a column it
\* reads is not in the file, .str meets a numeric series, or the lambda of
\* the coordinates step calls split on a cell that is no str.
LoadRaises(src) ==
    \/ ~src.reachable
    \/ ~src.header_ok
    \/ LET t == CleanCost(read_csv(src.rows))
           u == CleanRest(t)
       IN  \/ StrAccessorRaises(src.rows, "Location", t)
           \/ StrAccessorRaises(src.rows, "Gender", t)
           \/ \E i \in 1..Len(u) : ~u[i].Location.str

\* load_data returning an empty table, not None, after st.error.
load_data_empty(src) ==
    IF LoadRaises(src)
    THEN [df |-> DataFrame(<<>>), error |-> TRUE]
    ELSE LET t == CleanRest(CleanCost(read_csv(src.rows)))
         IN  [df |-> DataFrame([i \in 1..Len(t) |-> Enrich(t[i])]), error |-> FALSE]

\* load_data(): the table, or None after st.error.
load_data(src) ==
    IF LoadRaises(src)
    THEN [df |-> None, error |-> TRUE]
    ELSE LET t == CleanRest(CleanCost(read_csv(src.rows)))
         IN  [df |-> DataFrame([i \in 1..Len(t) |-> Enrich(t[i])]), error |-> FALSE]

----------------------------------------------------------------------------
(* The inputs: what the spreadsheet export can yield *)

\* The fields of a row of the file other than the cost, as CSV text; an empty
\* field is a missing value.
Profile(rating, location, gender, sharing, comments, phone) ==
    [Rating |-> rating, Location |-> location, Gender |-> gender,
     Sharing |-> sharing, Comments |-> comments, Phone |-> phone]

WithCost(p, cost) ==
    [Cost |-> cost, Rating |-> p.Rating, Location |-> p.Location,
     Gender |-> p.Gender, Sharing |-> p.Sharing, Comments |-> p.Comments,
     Phone |-> p.Phone]

Cost500 == <<"5", "0", "0">>   \* 500
CostRange == <<"5", "0", "0", "0", "-", "7", "0", "0", "0">>   \* 5000-7000
CostRupee == <<"₹", "2", "5", ",", "0", "0", "0">>   \* ₹25,000
CostAtFloor == <<"2", "0", "0", "0">>   \* 2000
CostAtCeiling == <<"6", "0", "0", "0", "0">>   \* 60000
CostEmpty == <<>>   \* an empty field
CostWord == <<"a", "b", "c">>   \* abc
CostNearCeiling == <<"5", "9", "9", "9", "9", ".", "5">>   \* 59999.5
CostThreeParts == <<"1", "0", "0", "0", "-", "9", "0", "0", "0", "-", "a", "b", "c">>   \* 1000-9000-abc

CostTexts == {Cost500, CostRange, CostRupee, CostAtFloor, CostAtCeiling,
              CostEmpty, CostWord, CostNearCeiling, CostThreeParts}

\* Rating '', Location '  gachibowli ', Gender '', Sharing '',
\* Comments '', Phone ''
ProfileBare ==
    Profile(<<>>,
            <<" ", " ", "g", "a", "c", "h", "i", "b", "o", "w", "l", "i", " ">>,
            <<>>,
            <<>>,
            <<>>,
            <<>>)
\* Rating '4.5', Location 'HITEC city', Gender 'Male', Sharing 'Double',
\* Comments 'Good food and clean rooms but no parking', Phone '98765'
ProfileFull ==
    Profile(<<"4", ".", "5">>,
            <<"H", "I", "T", "E", "C", " ", "c", "i", "t", "y">>,
            <<"M", "a", "l", "e">>,
            <<"D", "o", "u", "b", "l", "e">>,
            <<"G", "o", "o", "d", " ", "f", "o", "o", "d", " ", "a", "n", "d", " ", "c", "l", "e", "a", "n", " ", "r", "o", "o", "m", "s", " ", "b", "u", "t", " ", "n", "o", " ", "p", "a", "r", "k", "i", "n", "g">>,
            <<"9", "8", "7", "6", "5">>)
\* Rating 'good', Location 'madhapur phase 2', Gender ' Female ', Sharing 'Single',
\* Comments 'Breakfast was DIRTY', Phone ''
ProfileToken ==
    Profile(<<"g", "o", "o", "d">>,
            <<"m", "a", "d", "h", "a", "p", "u", "r", " ", "p", "h", "a", "s", "e", " ", "2">>,
            <<" ", "F", "e", "m", "a", "l", "e", " ">>,
            <<"S", "i", "n", "g", "l", "e">>,
            <<"B", "r", "e", "a", "k", "f", "a", "s", "t", " ", "w", "a", "s", " ", "D", "I", "R", "T", "Y">>,
            <<>>)
\* Rating '4', Location '', Gender 'Male', Sharing '',
\* Comments '', Phone '98765'
ProfileNoLoc ==
    Profile(<<"4">>,
            <<>>,
            <<"M", "a", "l", "e">>,
            <<>>,
            <<>>,
            <<"9", "8", "7", "6", "5">>)
\* Rating '3', Location '500032', Gender '', Sharing 'Double',
\* Comments '', Phone ''
ProfilePin ==
    Profile(<<"3">>,
            <<"5", "0", "0", "0", "3", "2">>,
            <<>>,
            <<"D", "o", "u", "b", "l", "e">>,
            <<>>,
            <<>>)
\* Rating 'four', Location ' KONDAPUR', Gender 'Female', Sharing '',
\* Comments 'near metro', Phone ''
ProfileOther ==
    Profile(<<"f", "o", "u", "r">>,
            <<" ", "K", "O", "N", "D", "A", "P", "U", "R">>,
            <<"F", "e", "m", "a", "l", "e">>,
            <<>>,
            <<"n", "e", "a", "r", " ", "m", "e", "t", "r", "o">>,
            <<>>)

Profiles == {ProfileBare, ProfileFull, ProfileToken, ProfileNoLoc, ProfilePin,
             ProfileOther}

\* The rows a file is made of: every cost text on the bare row, and every
\* other profile at an admissible cost; the row of the numeric location also
\* at a cost below the floor.
RawRows ==
    {WithCost(ProfileBare, c) : c \in CostTexts}
    \cup {WithCost(p, CostRupee) : p \in {ProfileFull, ProfileToken, ProfilePin}}
    \cup {WithCost(p, CostRange) : p \in {ProfileNoLoc, ProfileOther}}
    \cup {WithCost(ProfilePin, Cost500)}

MaxRows == 2

RECURSIVE SeqsUpTo(_, _)
SeqsUpTo(S, n) ==
    IF n = 0 THEN {<<>>}
    ELSE LET shorter == SeqsUpTo(S, n - 1)
         IN  shorter \cup {Append(q, x) : q \in {r \in shorter : Len(r) = n - 1}, x \in S}

\* The export is unreachable, or lacks one of the columns load_data reads
\* (Cost, Rating, Location, Gender, Comments), or is a file of at most MaxRows
\* rows.
Sources ==
    {[reachable |-> FALSE, header_ok |-> TRUE, rows |-> <<>>],
     [reachable |-> TRUE, header_ok |-> FALSE, rows |-> <<>>]}
    \cup {[reachable |-> TRUE, header_ok |-> TRUE, rows |-> q] :
             q \in SeqsUpTo(RawRows, MaxRows)}


----------------------------------------------------------------------------
(* The script: one render *)

All == <<"A", "l", "l">>

DashboardSteps == {"metrics", "charts", "recommendations", "map"}

DefaultBudget == 25000

\* ["All"] + sorted(df[col].unique().tolist()), as a set
options(t, col) == {All} \cup {t[i][col].v : i \in 1..Len(t)}

Costs(t) == {t[i].Cost : i \in 1..Len(t)}

\* int(df['Cost'].min()) and int(df['Cost'].max()), for a table with rows
MinCost(t) == int(CHOOSE c \in Costs(t) : \A o \in Costs(t) : ~RatLt(o, c))
MaxCost(t) == int(CHOOSE c \in Costs(t) : \A o \in Costs(t) : ~RatLt(c, o))

\* The values the slider is left at or moved to: its default and the two
\* ends computed from the table.
BudgetChoices(t) == {MinCost(t), MaxCost(t), DefaultBudget}

\* The filter with the budget as a strict bound.
Filter_strict(t, loc, gender, b) ==
    LET by_loc    == IF loc # All
                     THEN SelectSeq(t, LAMBDA r : r.Location.v = loc)
                     ELSE t
        by_gender == IF gender # All
                     THEN SelectSeq(by_loc, LAMBDA r : r.Gender.v = gender)
                     ELSE by_loc
    IN  SelectSeq(by_gender, LAMBDA r : RatLtInt(r.Cost, b))

\* The filter logic (lines 139-142) on a copy of the table.
Filter(t, loc, gender, b) ==
    LET by_loc    == IF loc # All
                     THEN SelectSeq(t, LAMBDA r : r.Location.v = loc)
                     ELSE t
        by_gender == IF gender # All
                     THEN SelectSeq(by_loc, LAMBDA r : r.Gender.v = gender)
                     ELSE by_loc
    IN  SelectSeq(by_gender, LAMBDA r : RatLeInt(r.Cost, b))

Idle ==
    /\ arg = Unset
    /\ ret = Unset

Init ==
    /\ pc = "load"
    /\ source \in Sources
    /\ df = Unset
    /\ error = FALSE
    /\ sel_loc = Unset
    /\ sel_gender = Unset
    /\ budget = Unset
    /\ filtered_df = Unset
    /\ steps = {}
    /\ Idle

\* df = load_data()
LoadData ==
    /\ pc = "load"
    /\ df' = load_data(source).df
    /\ error' = load_data(source).error
    /\ pc' = "loaded"
    /\ UNCHANGED <<arg, ret, source, sel_loc, sel_gender, budget, filtered_df, steps>>

\* if df is None: st.stop()
Stop ==
    /\ pc = "loaded"
    /\ df = None
    /\ pc' = "stopped"
    /\ UNCHANGED <<arg, ret, source, df, error, sel_loc, sel_gender, budget,
                   filtered_df, steps>>

\* The sidebar controls.  On a table without rows Cost.min() is NaN and int()
\* of it raises: the render ends there.
SidebarControls ==
    /\ pc = "loaded"
    /\ df # None
    /\ \/ /\ df.rows = <<>>
          /\ pc' = "crashed"
          /\ UNCHANGED <<sel_loc, sel_gender, budget>>
       \/ /\ df.rows # <<>>
          /\ sel_loc' \in options(df.rows, "Location")
          /\ sel_gender' \in options(df.rows, "Gender")
          /\ budget' \in BudgetChoices(df.rows)
          /\ pc' = "filter"
    /\ UNCHANGED <<arg, ret, source, df, error, filtered_df, steps>>

\* The filter logic.
FilterLogic ==
    /\ pc = "filter"
    /\ filtered_df' = DataFrame(Filter(df.rows, sel_loc, sel_gender, budget))
    /\ pc' = "dashboard"
    /\ UNCHANGED <<arg, ret, source, df, error, sel_loc, sel_gender, budget, steps>>

\* The metrics, the three tabs and the footer.
MainDashboard ==
    /\ pc = "dashboard"
    /\ steps' = DashboardSteps
    /\ pc' = "done"
    /\ UNCHANGED <<arg, ret, source, df, error, sel_loc, sel_gender, budget,
                   filtered_df>>

\* A widget is touched: the script runs again from the top.  Within the ttl
\* of the cache load_data gives what it gave for the same export.
Rerun ==
    /\ pc \in {"done", "stopped", "crashed"}
    /\ pc' = "load"
    /\ df' = Unset
    /\ error' = FALSE
    /\ sel_loc' = Unset
    /\ sel_gender' = Unset
    /\ budget' = Unset
    /\ filtered_df' = Unset
    /\ steps' = {}
    /\ UNCHANGED <<arg, ret, source>>

Next ==
    \/ LoadData
    \/ Stop
    \/ SidebarControls
    \/ FilterLogic
    \/ MainDashboard
    \/ Rerun

Spec == Init /\ [][Next]_vars


----------------------------------------------------------------------------
(* The functions on their own: each is called once on an input drawn from a
   bounded set of texts *)

RECURSIVE Concat(_)
Concat(q) == IF q = <<>> THEN <<>> ELSE Head(q) \o Concat(Tail(q))

NoScript ==
    /\ source = Unset
    /\ df = Unset
    /\ error = FALSE
    /\ sel_loc = Unset
    /\ sel_gender = Unset
    /\ budget = Unset
    /\ filtered_df = Unset
    /\ steps = {}

\* The characters a cost text is made of: the currency symbol, the thousands
\* separator, the space, the hyphen, the point, two digits and a letter.
CurrencyChars == {Rupee, ",", " ", "-", ".", "1", "2", "x"}

MaxCostLen == 5

InitCurrency ==
    /\ pc = "clean_currency"
    /\ arg \in SeqsUpTo(CurrencyChars, MaxCostLen)
    /\ ret = Unset
    /\ NoScript

CallCleanCurrency ==
    /\ pc = "clean_currency"
    /\ ret' = clean_currency(Str(arg))
    /\ pc' = "return"
    /\ UNCHANGED <<arg, source, df, error, sel_loc, sel_gender, budget,
                   filtered_df, steps>>

SpecCurrency == InitCurrency /\ [][CallCleanCurrency]_vars

\* The pieces a comment is made of.
CommentPieces == {
    <<"G", "o", "o", "d", " ", "f", "o", "o", "d", " ", "a", "n", "d", " ">>,
    <<"c", "l", "e", "a", "n", " ", "r", "o", "o", "m", "s", " ", "b", "u", "t", " ">>,
    <<"n", "o", " ", "p", "a", "r", "k", "i", "n", "g">>,
    <<"B", "r", "e", "a", "k", "f", "a", "s", "t">>,
    <<"W", "O", "R", "S", "T", " ">>,
    <<"f", "o", "o", "d">>,
    <<"B", "A", "D", " ">>,
    <<" ", "i", "s", " ", "o", "k", ".", " ">>,
    <<"D", "i", "r", "t", "y", ",", " ", "b", "u", "g", "s">>,
    <<"N", "E", "A", "R", " ", "M", "E", "T", "R", "O">> }

MaxPieces == 3

InitTags ==
    /\ pc = "generate_smart_tags"
    /\ arg \in {Concat(q) : q \in SeqsUpTo(CommentPieces, MaxPieces)}
    /\ ret = Unset
    /\ NoScript

CallGenerateSmartTags ==
    /\ pc = "generate_smart_tags"
    /\ ret' = generate_smart_tags(arg)
    /\ pc' = "return"
    /\ UNCHANGED <<arg, source, df, error, sel_loc, sel_gender, budget,
                   filtered_df, steps>>

SpecTags == InitTags /\ [][CallGenerateSmartTags]_vars

\* The pieces a Location field is made of: words, the space and the tab.
LocationPieces == {
    <<"g", "a", "c", "h", "i", "b", "o", "w", "l", "i">>,
    <<"H", "I", "T", "E", "C">>,
    <<"c", "i", "t", "y">>,
    <<" ">>,
    <<"\t">>,
    <<"M", "a", "d", "h", "a", "p", "u", "r">>,
    <<"p", "h", "a", "s", "e">>,
    <<"u", "n", "k", "n", "o", "w", "n">>,
    <<"b", "e", "g", "u", "m", "p", "e", "t">> }

MaxWords == 3

InitCoords ==
    /\ pc = "coords"
    /\ arg \in {Concat(q) : q \in SeqsUpTo(LocationPieces, MaxWords)}
    /\ ret = Unset
    /\ NoScript

\* Lines 94 and 105-107 on one Location field: the normalized Location and
\* the pair assigned to it.
CallCoords ==
    /\ pc = "coords"
    /\ LET x == str_title(str_strip(Str(arg))).v
       IN  ret' = [Location |-> x, lat |-> coords(x)[1], lon |-> coords(x)[2]]
    /\ pc' = "return"
    /\ UNCHANGED <<arg, source, df, error, sel_loc, sel_gender, budget,
                   filtered_df, steps>>

SpecCoords == InitCoords /\ [][CallCoords]_vars


----------------------------------------------------------------------------
(* Properties of clean_currency (SpecCurrency) *)

\* A text with the currency symbol and the thousands separators removed and
\* the surrounding whitespace stripped.
Bare(t) == strip(SelectSeq(t, LAMBDA c : c \notin {Rupee, ","}))

\* A plain number: float() takes it.
IsNumber(t) == ~Raises(float(t))

\* A well-formed range: two numbers with one hyphen between them.
WellFormedRange(t) ==
    \E i \in 1..Len(t) :
        /\ t[i] = "-"
        /\ IsNumber(SubSeq(t, 1, i - 1))
        /\ IsNumber(SubSeq(t, i + 1, Len(t)))

\* v = (a + b) / 2, for finite a and b
IsMidpoint(v, a, b) ==
    /\ v[2] > 0
    /\ v[1] * 2 * a[2] * b[2] = v[2] * (a[1] * b[2] + b[1] * a[2])

\* C4: clean_currency returns a number for every text, and returns 0 whenever
\* the text, bare of symbol, separators and surrounding whitespace, is neither
\* a plain number nor a well-formed range.
C4_UnparseableYieldsZero ==
    pc = "return" =>
        /\ ~Raises(ret)
        /\ (~IsNumber(Bare(arg)) /\ ~WellFormedRange(Bare(arg))) => ret = <<0, 1>>

\* C5, as stated: for every text A-B whose two sides are numbers, each
\* possibly with the currency symbol, thousands separators or surrounding
\* whitespace, clean_currency returns (A + B) / 2.
C5_RangeMidpoint ==
    pc = "return" =>
        \A i \in 1..Len(arg) :
            LET a == Bare(SubSeq(arg, 1, i - 1))
                b == Bare(SubSeq(arg, i + 1, Len(arg)))
            IN  (arg[i] = "-" /\ IsNumber(a) /\ IsNumber(b))
                    => IsMidpoint(ret, float(a), float(b))

\* The two sides of a range whose numbers carry no minus sign.
UnsignedRange(t, i) ==
    /\ t[i] = "-"
    /\ \A j \in 1..Len(t) : t[j] = "-" => j = i
    /\ IsNumber(Bare(SubSeq(t, 1, i - 1)))
    /\ IsNumber(Bare(SubSeq(t, i + 1, Len(t))))

\* C5, amended: for every text A-B whose two sides are numbers written
\* without a minus sign, each possibly with the currency symbol, thousands
\* separators or surrounding whitespace, clean_currency returns (A + B) / 2.
C5_UnsignedRangeMidpoint ==
    pc = "return" =>
        \A i \in 1..Len(arg) :
            UnsignedRange(arg, i)
                => IsMidpoint(ret, float(Bare(SubSeq(arg, 1, i - 1))),
                                   float(Bare(SubSeq(arg, i + 1, Len(arg)))))

\* A range with the currency symbol on it, 1 to 2, has come back as 3/2.
C5_Witness ==
    /\ pc = "return"
    /\ HasChar(arg, Rupee)
    /\ \E i \in 1..Len(arg) :
          /\ UnsignedRange(arg, i)
          /\ float(Bare(SubSeq(arg, 1, i - 1))) = <<1, 1>>
          /\ float(Bare(SubSeq(arg, i + 1, Len(arg)))) = <<2, 1>>
    /\ ret = <<3, 2>>

----------------------------------------------------------------------------
(* Properties of generate_smart_tags (SpecTags) *)

\* The categories in the order they are checked.
Categories ==
    << [words |-> GoodFoodWords,     label |-> "Good Food"],
       [words |-> MetroNearWords,    label |-> "Metro Near"],
       [words |-> CleanWords,        label |-> "Clean"],
       [words |-> FastWiFiWords,     label |-> "Fast WiFi"],
       [words |-> BadFoodWords,      label |-> "Bad Food"],
       [words |-> HygieneIssueWords, label |-> "Hygiene Issue"],
       [words |-> NoParkingWords,    label |-> "No Parking"] >>

\* The keyword occurs in the text, letter case apart.
OccursIn(text, word) ==
    \E i \in 0..(Len(text) - Len(word)) :
        \A j \in 1..Len(word) : ToLower(text[i + j]) = word[j]

Matched(text) ==
    {k \in 1..Len(Categories) : \E w \in Categories[k].words : OccursIn(text, w)}

\* tags holds exactly the labels of the matched categories, each once, in the
\* category order.
IsLabelsOf(tags, text) ==
    /\ Len(tags) = Cardinality(Matched(text))
    /\ \A k \in Matched(text) : \E n \in 1..Len(tags) : tags[n] = Categories[k].label
    /\ \A m, n \in 1..Len(tags) :
          m < n => \E k, l \in Matched(text) :
                      /\ k < l
                      /\ tags[m] = Categories[k].label
                      /\ tags[n] = Categories[l].label

ExampleComment ==
    <<"G", "o", "o", "d", " ", "f", "o", "o", "d", " ", "a", "n", "d", " ", "c", "l", "e", "a", "n", " ", "r", "o", "o", "m", "s", " ", "b", "u", "t", " ", "n", "o", " ", "p", "a", "r", "k", "i", "n", "g">>

\* C6: the tags are one label per category with a keyword occurring in the
\* comment, letter case apart, in the category order; with no such category
\* they are the single label Reviewed; they are never empty; the example
\* comment yields Good Food, Clean, No Parking.
C6_TagsPerCategory ==
    pc = "return" =>
        /\ ret # <<>>
        /\ Matched(arg) # {} => IsLabelsOf(ret, arg)
        /\ Matched(arg) = {} => ret = <<"Reviewed">>
        /\ arg = ExampleComment => ret = <<"Good Food", "Clean", "No Parking">>

\* The example comment has been tagged.
C6_Witness ==
    /\ pc = "return"
    /\ arg = ExampleComment
    /\ ret = <<"Good Food", "Clean", "No Parking">>

----------------------------------------------------------------------------
(* Properties of the coordinate lookup (SpecCoords) *)

Keys == {e[1] : e \in LOCATION_COORDINATES}

Entry(k) == (CHOOSE e \in LOCATION_COORDINATES : e[1] = k)[2]

\* The text before the first character of seps, or the whole text.
FirstToken(x, seps) ==
    LET at == {i \in 1..Len(x) : x[i] \in seps}
    IN  IF at = {} THEN x
        ELSE SubSeq(x, 1, (CHOOSE i \in at : \A j \in at : i <= j) - 1)

\* The pair of the full text if it is a key, else of its first token if that
\* is a key, else the pair of Unknown.
Lookup(x, seps) ==
    IF x \in Keys THEN Entry(x)
    ELSE IF FirstToken(x, seps) \in Keys THEN Entry(FirstToken(x, seps))
    ELSE Entry(Unknown)

\* C7, as stated: the first token is the first whitespace-delimited one.
C7_WhitespaceToken ==
    pc = "return" => <<ret.lat, ret.lon>> = Lookup(ret.Location, Whitespace)

\* C7, amended: the pair is the entry of the full normalized Location if it
\* is a key, else the entry of the text before its first space character if
\* that is a key, else the pair of Unknown.
C7_SpaceToken ==
    pc = "return" => <<ret.lat, ret.lon>> = Lookup(ret.Location, {" "})

\* A Location that is no key has been given the pair of its first token.
C7_Witness ==
    /\ pc = "return"
    /\ ret.Location \notin Keys
    /\ FirstToken(ret.Location, {" "}) \in Keys
    /\ <<ret.lat, ret.lon>> = Entry(FirstToken(ret.Location, {" "}))
    /\ <<ret.lat, ret.lon>> # Entry(Unknown)


----------------------------------------------------------------------------
(* Properties of load_data and of the render (Spec) *)

\* load_data has returned a table.
HasTable == pc # "load" /\ df # None

\* A cost strictly between the two bounds of the realistic range.
Admissible(c) == c[2] > 0 /\ c[1] > 2000 * c[2] /\ c[1] < 60000 * c[2]

\* The row of the table that came from the i-th row of the file.
RowsOf(i) == {k \in 1..Len(df.rows) : df.rows[k].index = i - 1}

\* C1: every row of the table has a Cost strictly between 2000 and 60000,
\* and a row of the file whose cleaned Cost is not is absent from the table:
\* so are the rows with the cost 500, with a cost the parser turned to 0 and
\* with no cost.
C1_CostInRange ==
    HasTable =>
        /\ \A k \in 1..Len(df.rows) : Admissible(df.rows[k].Cost)
        /\ LET numeric == NumericColumn(source.rows, "Cost")
           IN  \A i \in 1..Len(source.rows) :
                   (\/ source.rows[i].Cost \in {Cost500, CostWord, CostEmpty}
                    \/ ~Admissible(clean_currency(ReadCell(source.rows[i].Cost, numeric))))
                       => RowsOf(i) = {}

\* Of a file of two rows, one with the cost 500, only the other is in the
\* table.
C1_Witness ==
    /\ HasTable
    /\ Len(source.rows) = 2
    /\ \E i \in 1..2 : source.rows[i].Cost = Cost500
    /\ Len(df.rows) = 1

\* The fetch or the parse fails: the export is unreachable, lacks a column,
\* or load_data raises on its rows.
Fails == LoadRaises(source)

\* C2: when the fetch or the parse fails, load_data returns None, the error
\* has been shown, and the render stops before any control, filter or
\* dashboard step.
C2_FailureAborts ==
    (pc # "load" /\ Fails) =>
        /\ df = None
        /\ error = TRUE
        /\ pc \in {"loaded", "stopped"}
        /\ sel_loc = Unset /\ sel_gender = Unset /\ budget = Unset
        /\ filtered_df = Unset
        /\ steps = {}

\* The render has stopped on a file that was fetched, with its columns and
\* with rows, on which load_data raised.
C2_Witness ==
    /\ pc = "stopped"
    /\ source.reachable /\ source.header_ok /\ source.rows # <<>>
    /\ df = None
    /\ error = TRUE

CategoricalFields == {"Location", "Gender", "Sharing", "Comments", "Phone"}

\* C3: no row of the table misses a value in Location, Gender, Sharing,
\* Comments or Phone.
C3_NoMissingCategorical ==
    HasTable =>
        \A k \in 1..Len(df.rows) : \A c \in CategoricalFields : ~isna(df.rows[k][c])

IsRange(t) == \E i \in 1..Len(t) : UnsignedRange(t, i)

\* The two ends of such a range.
RangeEnds(t) ==
    LET i == CHOOSE j \in 1..Len(t) : UnsignedRange(t, j)
    IN  <<float(Bare(SubSeq(t, 1, i - 1))), float(Bare(SubSeq(t, i + 1, Len(t))))>>

\* (a + b) / 2 as a fraction, not reduced
HalfSum(a, b) == <<a[1] * b[2] + b[1] * a[2], 2 * a[2] * b[2]>>

\* The area names in lower case.
LowerKey == [k \in Keys |-> lower(k)]

\* The Location text, trimmed and in lower case, is the area name k: the
\* text writes the name with surrounding whitespace and in any letter case.
WritesArea(trimmed, k) == trimmed = LowerKey[k]

\* C9: a row of the file whose Cost is a range with an admissible midpoint,
\* whose Rating is empty or no number, and whose Location is a known area
\* name with surrounding whitespace and in any letter case, is in the table
\* with the midpoint as Cost, Rating 0, the area name trimmed and
\* title-cased as Location, that name's pair as lat and lon, and Value Score
\* 0.
C9_RowNormalized ==
    HasTable =>
        \A i \in 1..Len(source.rows) :
            LET row     == source.rows[i]
                ends    == RangeEnds(row.Cost)
                trimmed == lower(strip(row.Location))
            IN  (/\ IsRange(row.Cost)
                 /\ Admissible(HalfSum(ends[1], ends[2]))
                 /\ ~IsNumber(row.Rating))
                => \A k \in Keys :
                      WritesArea(trimmed, k)
                      => \E n \in RowsOf(i) :
                            LET r == df.rows[n]
                            IN  /\ IsMidpoint(r.Cost, ends[1], ends[2])
                                /\ r.Rating = <<0, 1>>
                                /\ r.Location = Str(k)
                                /\ <<r.lat, r.lon>> = Entry(k)
                                /\ r.ValueScore = <<0, 1>>

Gachibowli == <<"G", "a", "c", "h", "i", "b", "o", "w", "l", "i">>

\* The row Cost "5000-7000", Rating "", Location "  gachibowli " is in the
\* table as 6000, 0, Gachibowli, Gachibowli's pair, 0.
C9_Witness ==
    /\ HasTable
    /\ source.rows # <<>>
    /\ source.rows[1] = WithCost(ProfileBare, CostRange)
    /\ df.rows # <<>>
    /\ df.rows[1].Cost = <<6000, 1>>
    /\ df.rows[1].Rating = <<0, 1>>
    /\ df.rows[1].Location = Str(Gachibowli)
    /\ <<df.rows[1].lat, df.rows[1].lon>> = <<174401, 783489>>
    /\ df.rows[1].ValueScore = <<0, 1>>

\* The row passes the three controls: its Location is the selected one or
\* All is selected, its Gender likewise, and its Cost is at most the budget.
Passes(r) ==
    /\ sel_loc = All \/ r.Location.v = sel_loc
    /\ sel_gender = All \/ r.Gender.v = sel_gender
    /\ r.Cost[1] <= budget * r.Cost[2]

\* C10: for every choice of the three controls the filtered view holds
\* exactly the rows of the base table that pass them, in their order, no row
\* from elsewhere, and the filter step leaves the base table as it was.
C10_FilterProjection ==
    /\ [](pc \in {"dashboard", "done"} =>
            /\ filtered_df = DataFrame(SelectSeq(df.rows, Passes))
            /\ \A n \in 1..Len(filtered_df.rows) :
                  \E k \in 1..Len(df.rows) : df.rows[k] = filtered_df.rows[n])
    /\ [][pc = "filter" => df' = df]_vars

\* A location is selected, a row whose Cost equals the budget is in the
\* view, and a row of the base table is not.
C10_Witness ==
    /\ pc = "done"
    /\ sel_loc # All
    /\ \E n \in 1..Len(filtered_df.rows) : filtered_df.rows[n].Cost = <<budget, 1>>
    /\ Len(filtered_df.rows) < Len(df.rows)

=============================================================================
